---- MODULE Spec2Model ----
(***************************************************************************)
(* Model of src/timer.rs: the embassy-time wake queue (mod queue /         *)
(* generic_queue: one esp_timer shared by a deadline-sorted list of        *)
(* wakers) and the embassy-time alarm pool (mod driver: EspDriver, a       *)
(* fixed-capacity vector of alarms, each owning one EspTimer).             *)
(* A third part follows one EspTimer of a user from its creation to its    *)
(* drop (after, every, cancel, expiry, callback, Drop::drop).               *)
(*                                                                         *)
(* Queue handlers run under the queue mutex (Queue::schedule_wake,         *)
(* Queue::handle_alarm), so each is one action.  The clock may advance     *)
(* between the two reads made by one handler: the first read (Instant::now *)
(* in dispatch) returns the current clock, the second (esp_timer_get_time  *)
(* in AlarmImpl::schedule) any value not below it.                         *)
(***************************************************************************)
EXTENDS Integers, Sequences, FiniteSets, TLC

\* ---------------------------------------------------------------- bounds
MaxClock == 2        \* the clock (esp_timer_get_time) runs over 0..MaxClock
QueueCap == 2        \* capacity of the sorted list (128 in the source)
MaxPending == 1      \* alarm callbacks dispatched by esp_timer and not yet run
MaxAlarms == 2       \* MAX_ALARMS of the pool (16 in the source)
NumCallers == 2      \* tasks that call into the pool concurrently

\* u64::MAX / Instant::MAX: the top of the tick domain.  The clock is an
\* i64 cast to u64, so it never reaches this value.
U64_MAX == MaxClock + 2

\* deadlines a caller may pass: past, present, future, beyond the horizon of
\* the modelled clock, and the maximum tick value
Deadlines == 1 .. U64_MAX

\* timestamps a caller may pass to set_alarm
Timestamps == 1 .. (MaxClock + 1)

\* waker identities (Waker::will_wake); one more than the capacity so that
\* the list can overflow
Wakers == 1 .. (QueueCap + 1)

VARIABLES
    clock,          \* latest value returned by esp_timer_get_time
    queue,          \* InnerQueue.queue: sequence of Timer, head first
    alarm,          \* InnerQueue.alarm is Some(..)
    esp_timers,     \* esp_timer_create calls made by AlarmImpl::new so far
    alarm_context,  \* InnerQueue.alarm_context.callback
    alarm_at,       \* InnerQueue.alarm_at
    hw,             \* the esp_timer behind AlarmImpl: armed?, absolute fire time
    pending,        \* fires of hw whose callback has not run yet
    isr,            \* handle_isr: "idle", or the callback it read and will call
    lastOp,         \* the handler that produced this state, if one did
    lastArgs,       \* its arguments (schedule_wake: at, waker)
    lastOld,        \* the deadline the waker's entry had on entry (0: no entry)
    lastEvicted,    \* timers woken by the overflow loop of that call, in order
    lastSwept       \* timers woken by the dispatch() of that call, in order

qvars == <<queue, alarm, esp_timers, alarm_context, alarm_at, hw, pending, isr,
           lastOp, lastArgs, lastOld, lastEvicted, lastSwept>>

VARIABLES
    alarms,         \* EspDriver.alarms: Vec<Alarm>; slot id is index - 1
    pc,             \* per caller: "idle", or "bind" inside allocate_alarm
    allocId,        \* per caller inside allocate_alarm: the id it pushed
    handles,        \* the ids allocate_alarm has returned as AlarmHandle
    issued,         \* the ids in the order allocate_alarm assigned them
    created,        \* number of esp_timer_create calls made for the pool
    fired,          \* per slot: fires whose callback has not run yet
    pLast           \* the pool operation that has just returned, if any; guard:
                    \* it ran with let _guard = self.cs.enter() in scope

pvars == <<alarms, pc, allocId, handles, issued, created, fired, pLast>>

VARIABLES
    et,             \* a user's EspTimer: its esp_timer (exists?, armed?, fire time)
    etPeriod,       \* period of et when started by every(), 0 when one-shot
    etBox,          \* EspTimer._callback: the boxed closure, "held" or "freed"
    etRun,          \* expiries of et whose callback has not returned yet
    etPc,           \* position of the owner inside Drop::drop ("live": not in it)
    etLast          \* the EspTimer operation that has just returned, if any

tvars == <<et, etPeriod, etBox, etRun, etPc, etLast>>

vars == <<clock, qvars, pvars, tvars>>

\* ------------------------------------------------------------ Timer list
Timer(at, waker) == [at |-> at, waker |-> waker]

NoArgs == [at |-> 0, waker |-> 0]

HwOff == [armed |-> FALSE, fireAt |-> 0]

\* SortedLinkedList<_, _, Min, N>::push_unchecked with Timer::cmp (by `at`
\* only): the new node goes in front of the first node that is not Less
PushAt(q, t) ==
    IF \E i \in 1..Len(q) : q[i].at >= t.at
    THEN CHOOSE i \in 1..Len(q) :
            /\ q[i].at >= t.at
            /\ \A j \in 1..(i-1) : q[j].at < t.at
    ELSE Len(q) + 1

\* variant: the new node is linked in front of the list, whatever its deadline
push_unchecked_front(q, t) == <<t>> \o q

push_unchecked(q, t) ==
    LET p == PushAt(q, t)
    IN  SubSeq(q, 1, p - 1) \o <<t>> \o SubSeq(q, p, Len(q))

\* find_mut(|timer| timer.waker.will_wake(waker)): index of the first match
HasWaker(q, w) == \E i \in 1..Len(q) : q[i].waker = w

find_mut(q, w) ==
    CHOOSE i \in 1..Len(q) :
        /\ q[i].waker = w
        /\ \A j \in 1..(i-1) : q[j].waker # w

\* the deadline of the entry find_mut returns
EntryAt(q, w) == q[find_mut(q, w)].at

RemoveAt(q, i) == SubSeq(q, 1, i - 1) \o SubSeq(q, i + 1, Len(q))

\* variant: the deadline is stored in the found node, which stays in place
FindMutFinish_inplace(q, w, at) == [q EXCEPT ![find_mut(q, w)].at = at]

\* variant: the deadline is stored in a second node instead of the found one
FindMutFinish_dup(q, w, at) == push_unchecked(q, Timer(at, w))

\* timer.at = at; timer.finish(): the node is taken out and pushed again
FindMutFinish(q, w, at) ==
    push_unchecked(RemoveAt(q, find_mut(q, w)), Timer(at, w))

\* variant: the overflow loop gives up the entry at the tail of the list
RECURSIVE PushLoop_last(_, _, _)
PushLoop_last(q, t, woken) ==
    IF Len(q) < QueueCap
    THEN [queue |-> push_unchecked(q, t), woken |-> woken]
    ELSE PushLoop_last(SubSeq(q, 1, Len(q) - 1), t, Append(woken, q[Len(q)]))

\* loop { match self.queue.push(timer) { Ok => break, Err(e) => timer = e };
\*        self.queue.pop().unwrap().waker.wake(); }
RECURSIVE PushLoop(_, _, _)
PushLoop(q, t, woken) ==
    IF Len(q) < QueueCap
    THEN [queue |-> push_unchecked(q, t), woken |-> woken]
    ELSE PushLoop(Tail(q), t, Append(woken, Head(q)))

\* variant: the sweep also takes the timers due one tick later
RECURSIVE Sweep_early(_, _, _)
Sweep_early(q, now, woken) ==
    IF q # <<>> /\ Head(q).at <= now + 1
    THEN Sweep_early(Tail(q), now, Append(woken, Head(q)))
    ELSE [queue |-> q, woken |-> woken]

\* variant: the sweep compares with < instead of <=
RECURSIVE Sweep_strict(_, _, _)
Sweep_strict(q, now, woken) ==
    IF q # <<>> /\ Head(q).at < now
    THEN Sweep_strict(Tail(q), now, Append(woken, Head(q)))
    ELSE [queue |-> q, woken |-> woken]

\* while self.queue.peek().filter(|timer| timer.at <= now).is_some() { pop; wake }
RECURSIVE Sweep(_, _, _)
Sweep(q, now, woken) ==
    IF q # <<>> /\ Head(q).at <= now
    THEN Sweep(Tail(q), now, Append(woken, Head(q)))
    ELSE [queue |-> q, woken |-> woken]

\* variant: the absolute timestamp is passed to start_once as the delay
AlarmImpl_schedule_abs(timestamp, now) ==
    IF timestamp < U64_MAX
    THEN [armed |-> TRUE, fireAt |-> now + timestamp]
    ELSE HwOff

\* AlarmImpl::schedule: stop, then start_once(after) unless timestamp is u64::MAX
AlarmImpl_schedule(timestamp, now) ==
    LET after == IF timestamp <= now THEN 0 ELSE timestamp - now
    IN  IF timestamp < U64_MAX
        THEN [armed |-> TRUE, fireAt |-> now + after]
        ELSE HwOff

\* variant: the empty branch does not reset alarm_at
update_alarm_stale(q, at0, h, now2) ==
    IF q # <<>>
    THEN LET new_at == Head(q).at
         IN  IF at0 # new_at
             THEN [alarm_at |-> new_at, hw |-> AlarmImpl_schedule(new_at, now2),
                   scheduled |-> TRUE]
             ELSE [alarm_at |-> at0, hw |-> h, scheduled |-> FALSE]
    ELSE [alarm_at |-> at0, hw |-> AlarmImpl_schedule(U64_MAX, now2),
          scheduled |-> TRUE]

\* variant: the alarm is programmed only when none is programmed
update_alarm_lazy(q, at0, h, now2) ==
    IF q # <<>>
    THEN LET new_at == Head(q).at
         IN  IF at0 = U64_MAX /\ at0 # new_at
             THEN [alarm_at |-> new_at, hw |-> AlarmImpl_schedule(new_at, now2),
                   scheduled |-> TRUE]
             ELSE [alarm_at |-> at0, hw |-> h, scheduled |-> FALSE]
    ELSE [alarm_at |-> U64_MAX, hw |-> AlarmImpl_schedule(U64_MAX, now2),
          scheduled |-> TRUE]

\* InnerQueue::update_alarm; now2 is the clock read by AlarmImpl::schedule
update_alarm(q, at0, h, now2) ==
    IF q # <<>>
    THEN LET new_at == Head(q).at
         IN  IF at0 # new_at
             THEN [alarm_at |-> new_at, hw |-> AlarmImpl_schedule(new_at, now2),
                   scheduled |-> TRUE]
             ELSE [alarm_at |-> at0, hw |-> h, scheduled |-> FALSE]
    ELSE [alarm_at |-> U64_MAX, hw |-> AlarmImpl_schedule(U64_MAX, now2),
          scheduled |-> TRUE]

\* variant: dispatch only updates the alarm, due timers stay in the list
dispatch_nosweep(q, at0, h, now1, now2) ==
    LET u == update_alarm(q, at0, h, now2)
    IN  [queue |-> q, swept |-> <<>>, alarm_at |-> u.alarm_at,
         hw |-> u.hw, scheduled |-> u.scheduled]

\* InnerQueue::dispatch; now1 is the value of Instant::now()
dispatch(q, at0, h, now1, now2) ==
    LET s == Sweep(q, now1, <<>>)
        u == update_alarm(s.queue, at0, h, now2)
    IN  [queue |-> s.queue, swept |-> s.woken, alarm_at |-> u.alarm_at,
         hw |-> u.hw, scheduled |-> u.scheduled]

\* variant: on a full list the waker's entry is not looked up, a timer is
\* pushed through the overflow loop
Insert_nofind(q, at, w) ==
    IF HasWaker(q, w) /\ Len(q) < QueueCap
    THEN [queue |-> FindMutFinish(q, w, at), woken |-> <<>>]
    ELSE PushLoop(q, Timer(at, w), <<>>)

\* variant: a full list rejects the new timer
Insert_reject(q, at, w) ==
    IF HasWaker(q, w)
    THEN [queue |-> FindMutFinish(q, w, at), woken |-> <<>>]
    ELSE IF Len(q) < QueueCap
         THEN [queue |-> push_unchecked(q, Timer(at, w)), woken |-> <<>>]
         ELSE [queue |-> q, woken |-> <<>>]

\* InnerQueue::schedule_wake up to the call of dispatch()
Insert(q, at, w) ==
    IF HasWaker(q, w)
    THEN [queue |-> FindMutFinish(q, w, at), woken |-> <<>>]
    ELSE PushLoop(q, Timer(at, w), <<>>)

\* variant: handle_alarm sweeps and leaves the alarm as it is
handle_alarm_norearm(q, h, now1, now2) ==
    LET s == Sweep(q, now1, <<>>)
    IN  [queue |-> s.queue, swept |-> s.woken,
         alarm_at |-> IF s.queue = <<>> THEN U64_MAX ELSE Head(s.queue).at,
         hw |-> h, scheduled |-> FALSE]

\* InnerQueue::handle_alarm: self.alarm_at = Instant::MAX; self.dispatch()
handle_alarm(q, h, now1, now2) == dispatch(q, U64_MAX, h, now1, now2)

\* InnerQueue::schedule_wake: find_mut or push loop, then dispatch()
schedule_wake(q, at0, h, at, w, now1, now2) ==
    LET i == Insert(q, at, w)
        d == dispatch(i.queue, at0, h, now1, now2)
    IN  [queue |-> d.queue, evicted |-> i.woken, swept |-> d.swept,
         alarm_at |-> d.alarm_at, hw |-> d.hw, scheduled |-> d.scheduled]

\* variant: AlarmImpl::new is called by every initialize()
initialize_again(a, n) == [alarm |-> TRUE, esp_timers |-> n + 1]

\* InnerQueue::initialize: the alarm is created (AlarmImpl::new calls
\* esp_timer_create) if there is none; n counts the calls of esp_timer_create
initialize(a, n) ==
    IF a = FALSE
    THEN [alarm |-> TRUE, esp_timers |-> n + 1]
    ELSE [alarm |-> a, esp_timers |-> n]

\* ------------------------------------------------------------- the queue
QInit ==
    /\ clock = 0
    /\ queue = <<>>
    /\ alarm = FALSE
    /\ esp_timers = 0
    /\ alarm_context = "noop"
    /\ alarm_at = U64_MAX
    /\ hw = HwOff
    /\ pending = 0
    /\ isr = "idle"
    /\ lastOp = "none"
    /\ lastArgs = NoArgs
    /\ lastOld = 0
    /\ lastEvicted = <<>>
    /\ lastSwept = <<>>

\* Queue::schedule_wake(at, waker), InnerQueue::initialize included
ScheduleWake(at, w) ==
    /\ lastOp = "none"
    /\ \E now2 \in clock..MaxClock :
        LET now1 == clock
            d == schedule_wake(queue, alarm_at, hw, at, w, now1, now2)
        IN  /\ alarm_context' = "handle_alarm_callback"
            /\ alarm' = initialize(alarm, esp_timers).alarm
            /\ esp_timers' = initialize(alarm, esp_timers).esp_timers
            /\ queue' = d.queue
            /\ alarm_at' = d.alarm_at
            /\ hw' = d.hw
            /\ clock' = IF d.scheduled THEN now2 ELSE now1
            /\ lastOp' = "schedule_wake"
            /\ lastArgs' = Timer(at, w)
            /\ lastOld' = IF HasWaker(queue, w) THEN EntryAt(queue, w) ELSE 0
            /\ lastEvicted' = d.evicted
            /\ lastSwept' = d.swept
            /\ UNCHANGED <<pending, isr>>
            /\ UNCHANGED <<pvars, tvars>>

\* the esp_timer callback runs: handle_isr -> handle_alarm_callback ->
\* Queue::handle_alarm -> InnerQueue::handle_alarm
HandleAlarm ==
    /\ lastOp = "none"
    /\ pending > 0
    /\ isr = "idle"
    /\ alarm
    /\ \E now2 \in clock..MaxClock :
        LET now1 == clock
            d == handle_alarm(queue, hw, now1, now2)
        IN  /\ queue' = d.queue
            /\ alarm_at' = d.alarm_at
            /\ hw' = d.hw
            /\ clock' = IF d.scheduled THEN now2 ELSE now1
            /\ lastOp' = "handle_alarm"
            /\ lastArgs' = NoArgs
            /\ lastOld' = 0
            /\ lastEvicted' = <<>>
            /\ lastSwept' = d.swept
    /\ pending' = pending - 1
    /\ UNCHANGED <<alarm, esp_timers, alarm_context, isr>>
    /\ UNCHANGED <<pvars, tvars>>

\* AlarmImpl::handle_isr, its first statements: the esp_timer callback is
\* entered with the pointer to InnerQueue.alarm_context and reads callback
\* and ctx through it; the queue mutex is not taken here, whoever holds it
IsrRead ==
    /\ pending > 0
    /\ isr = "idle"
    /\ pending' = pending - 1
    /\ isr' = alarm_context
    /\ UNCHANGED <<clock, queue, alarm, esp_timers, alarm_context, alarm_at, hw>>
    /\ UNCHANGED <<lastOp, lastArgs, lastOld, lastEvicted, lastSwept>>
    /\ UNCHANGED <<pvars, tvars>>

\* AlarmImpl::handle_isr, the call (alarm_context.callback)(alarm_context.ctx):
\* handle_alarm_callback -> Queue::handle_alarm takes the mutex and runs
\* InnerQueue::handle_alarm; AlarmContext::noop does nothing
IsrRun ==
    /\ lastOp = "none"
    /\ isr # "idle"
    /\ isr' = "idle"
    /\ IF isr = "handle_alarm_callback"
       THEN \E now2 \in clock..MaxClock :
              LET now1 == clock
                  d == handle_alarm(queue, hw, now1, now2)
              IN  /\ queue' = d.queue
                  /\ alarm_at' = d.alarm_at
                  /\ hw' = d.hw
                  /\ clock' = IF d.scheduled THEN now2 ELSE now1
                  /\ lastOp' = "handle_alarm"
                  /\ lastArgs' = NoArgs
                  /\ lastOld' = 0
                  /\ lastEvicted' = <<>>
                  /\ lastSwept' = d.swept
       ELSE /\ UNCHANGED <<clock, queue, alarm_at, hw>>
            /\ UNCHANGED <<lastOp, lastArgs, lastOld, lastEvicted, lastSwept>>
    /\ UNCHANGED <<alarm, esp_timers, alarm_context, pending>>
    /\ UNCHANGED <<pvars, tvars>>

\* the one-shot esp_timer expires: it becomes inactive and its callback is
\* dispatched (to the esp_timer task or the ISR)
Fire ==
    /\ lastOp = "none"
    /\ hw.armed
    /\ hw.fireAt <= clock
    /\ pending < MaxPending
    /\ hw' = HwOff
    /\ pending' = pending + 1
    /\ UNCHANGED <<clock, queue, alarm, esp_timers, alarm_context, alarm_at, isr>>
    /\ UNCHANGED <<lastOp, lastArgs, lastOld, lastEvicted, lastSwept>>
    /\ UNCHANGED <<pvars, tvars>>

\* time passes
Tick ==
    /\ lastOp = "none"
    /\ clock < MaxClock
    /\ clock' = clock + 1
    /\ UNCHANGED <<queue, alarm, esp_timers, alarm_context, alarm_at, hw, pending, isr>>
    /\ UNCHANGED <<lastOp, lastArgs, lastOld, lastEvicted, lastSwept>>
    /\ UNCHANGED <<pvars, tvars>>

\* the handler returns to its caller and the lock is released: the record
\* of the call (arguments, wakers woken) is dropped
Return ==
    /\ lastOp # "none"
    /\ lastOp' = "none"
    /\ lastArgs' = NoArgs
    /\ lastOld' = 0
    /\ lastEvicted' = <<>>
    /\ lastSwept' = <<>>
    /\ UNCHANGED <<clock, queue, alarm, esp_timers, alarm_context, alarm_at, hw, pending, isr>>
    /\ UNCHANGED <<pvars, tvars>>

QNext ==
    \/ \E at \in Deadlines : \E w \in Wakers : ScheduleWake(at, w)
    \/ HandleAlarm
    \/ Return
    \/ Fire
    \/ Tick

\* the queue with handle_isr in its two parts
INext ==
    \/ \E at \in Deadlines : \E w \in Wakers : ScheduleWake(at, w)
    \/ IsrRead
    \/ IsrRun
    \/ Return
    \/ Fire
    \/ Tick

\* -------------------------------------------------------------- the pool
Callers == 1 .. NumCallers

None == <<>>

\* allocate_alarm returned None
Exhausted == -1

\* the (function, context) pairs a caller may register
CallbackPairs == {<<1, 1>>, <<2, 2>>}

\* an EspTimer that is not running
TimerOff == [some |-> TRUE, armed |-> FALSE, fireAt |-> 0]

\* Alarm.timer is None
NoTimer == [some |-> FALSE, armed |-> FALSE, fireAt |-> 0]

\* EspTimer::cancel: esp_timer_stop
cancel(t) == TimerOff

\* esp_timer_start_once: refused (ESP_ERR_INVALID_STATE) while the timer runs
esp_timer_start_once(t, timeout_us, now) ==
    IF t.armed THEN t
    ELSE [some |-> TRUE, armed |-> TRUE, fireAt |-> now + timeout_us]

\* variant: after() starts the timer without cancelling it first
after_nocancel(t, duration, now) == esp_timer_start_once(t, duration, now)

\* EspTimer::after(duration): cancel, then start_once
after(t, duration, now) == esp_timer_start_once(cancel(t), duration, now)

\* the branch of EspDriver::set_alarm
set_alarm_armed(now, timestamp) == now < timestamp

\* variant: the capacity test is off by one
allocate_has_room_le(id) == id <= MaxAlarms

\* the branch of EspDriver::allocate_alarm
allocate_has_room(id) == id < MaxAlarms

NewAlarm == [timer |-> NoTimer, callback |-> None]

\* variant: the id is the length the vector had one push earlier
allocate_id_stale(a) == IF a = <<>> THEN 0 ELSE Len(a) - 1

\* allocate_alarm: the id is the length of the vector, read under cs
allocate_id(a) == Len(a)

\* variant: the callback is read from the first slot, whatever the id
call_first(a, id) == a[1].callback

\* EspDriver::call: the pair read under cs from slot id; None: nothing is run
call(a, id) == a[id + 1].callback

NoPoolOp == [op |-> "none", id |-> 0, ts |-> 0, result |-> None,
             dur |-> 0, prev |-> 0, guard |-> FALSE]

PInit ==
    /\ alarms = <<>>
    /\ pc = [p \in Callers |-> "idle"]
    /\ allocId = [p \in Callers |-> 0]
    /\ handles = {}
    /\ issued = <<>>
    /\ created = 0
    /\ fired = [i \in 0..(MaxAlarms - 1) |-> 0]
    /\ pLast = NoPoolOp

\* allocate_alarm, the part under the critical section: push or return None
AllocEnter(p) ==
    /\ pLast.op = "none"
    /\ pc[p] = "idle"
    /\ LET id == allocate_id(alarms)
       IN  IF allocate_has_room(id)
           THEN /\ alarms' = Append(alarms, NewAlarm)
                /\ pc' = [pc EXCEPT ![p] = "bind"]
                /\ allocId' = [allocId EXCEPT ![p] = id]
                /\ issued' = Append(issued, id)
                /\ pLast' = [op |-> "allocate_push", id |-> id, ts |-> 0,
                             result |-> None, dur |-> 0, prev |-> 0,
                             guard |-> TRUE]
           ELSE /\ pLast' = [op |-> "allocate", id |-> 0, ts |-> 0,
                             result |-> Exhausted, dur |-> 0, prev |-> 0,
                             guard |-> TRUE]
                /\ UNCHANGED <<alarms, pc, allocId, issued>>
    /\ UNCHANGED <<handles, created, fired>>
    /\ UNCHANGED <<clock, qvars, tvars>>

\* allocate_alarm, the rest: create the EspTimer, store it, return the handle
AllocBind(p) ==
    /\ pLast.op = "none"
    /\ pc[p] = "bind"
    /\ LET id == allocId[p]
       IN  /\ alarms' = [alarms EXCEPT ![id + 1].timer = TimerOff]
           /\ handles' = handles \cup {id}
           /\ pLast' = [op |-> "allocate", id |-> id, ts |-> 0,
                        result |-> id, dur |-> 0, prev |-> 0,
                        guard |-> FALSE]
    /\ created' = created + 1
    /\ pc' = [pc EXCEPT ![p] = "idle"]
    /\ allocId' = [allocId EXCEPT ![p] = 0]
    /\ UNCHANGED <<issued, fired>>
    /\ UNCHANGED <<clock, qvars, tvars>>

\* set_alarm_callback(handle, callback, ctx)
SetAlarmCallback(id, cb) ==
    /\ pLast.op = "none"
    /\ id \in handles
    /\ alarms' = [alarms EXCEPT ![id + 1].callback = cb]
    /\ pLast' = [op |-> "set_alarm_callback", id |-> id, ts |-> 0,
                 result |-> cb, dur |-> 0, prev |-> 0,
                 guard |-> TRUE]
    /\ UNCHANGED <<pc, allocId, handles, issued, created, fired>>
    /\ UNCHANGED <<clock, qvars, tvars>>

\* set_alarm(handle, timestamp): one read of now(), then the branch
SetAlarm(id, timestamp) ==
    /\ pLast.op = "none"
    /\ id \in handles
    /\ LET now == clock
       IN  IF set_alarm_armed(now, timestamp)
           THEN /\ alarms' = [alarms EXCEPT ![id + 1].timer =
                                after(@, timestamp - now, now)]
                /\ pLast' = [op |-> "set_alarm", id |-> id, ts |-> timestamp,
                             result |-> TRUE, dur |-> timestamp - now,
                             prev |-> alarms[id + 1].timer.fireAt,
                             guard |-> FALSE]
           ELSE /\ pLast' = [op |-> "set_alarm", id |-> id, ts |-> timestamp,
                             result |-> FALSE, dur |-> 0,
                             prev |-> alarms[id + 1].timer.fireAt,
                             guard |-> FALSE]
                /\ UNCHANGED alarms
    /\ UNCHANGED <<pc, allocId, handles, issued, created, fired>>
    /\ UNCHANGED <<clock, qvars, tvars>>

\* the one-shot esp_timer of a slot expires and its callback is dispatched
PFire(id) ==
    /\ pLast.op = "none"
    /\ id < Len(alarms)
    /\ alarms[id + 1].timer.some
    /\ alarms[id + 1].timer.armed
    /\ alarms[id + 1].timer.fireAt <= clock
    /\ fired[id] < MaxPending
    /\ alarms' = [alarms EXCEPT ![id + 1].timer = TimerOff]
    /\ fired' = [fired EXCEPT ![id] = @ + 1]
    /\ UNCHANGED <<pc, allocId, handles, issued, created, pLast>>
    /\ UNCHANGED <<clock, qvars, tvars>>

\* EspDriver::call(id): read the slot's callback under cs, invoke it if set
Call(id) ==
    /\ pLast.op = "none"
    /\ fired[id] > 0
    /\ fired' = [fired EXCEPT ![id] = @ - 1]
    /\ pLast' = [op |-> "call", id |-> id, ts |-> 0,
                 result |-> call(alarms, id), dur |-> 0, prev |-> 0,
                 guard |-> TRUE]
    /\ UNCHANGED <<alarms, pc, allocId, handles, issued, created>>
    /\ UNCHANGED <<clock, qvars, tvars>>

\* time passes
PTick ==
    /\ pLast.op = "none"
    /\ clock < MaxClock
    /\ clock' = clock + 1
    /\ UNCHANGED <<pvars, tvars>>
    /\ UNCHANGED <<qvars, tvars>>

\* the pool operation returns to its caller: its record is dropped
PReturn ==
    /\ pLast.op # "none"
    /\ pLast' = NoPoolOp
    /\ UNCHANGED <<alarms, pc, allocId, handles, issued, created, fired>>
    /\ UNCHANGED <<clock, qvars, tvars>>

PNext ==
    \/ \E p \in Callers : AllocEnter(p)
    \/ \E p \in Callers : AllocBind(p)
    \/ \E id \in 0..(MaxAlarms - 1) : \E cb \in CallbackPairs : SetAlarmCallback(id, cb)
    \/ \E id \in 0..(MaxAlarms - 1) : \E ts \in Timestamps : SetAlarm(id, ts)
    \/ \E id \in 0..(MaxAlarms - 1) : PFire(id)
    \/ \E id \in 0..(MaxAlarms - 1) : Call(id)
    \/ PReturn
    \/ PTick

\* ---------------------------------------------------------- an EspTimer
ESP_OK == 0

ESP_ERR_INVALID_STATE == 259

\* delays a caller may pass to EspTimer::after
Durations == 1 .. MaxClock

\* esp_timer_stop: ESP_ERR_INVALID_STATE when the timer is not running
esp_timer_stop(t) == IF t.armed THEN ESP_OK ELSE ESP_ERR_INVALID_STATE

\* esp_timer_delete: ESP_ERR_INVALID_STATE while the timer is running
esp_timer_delete(t) == IF t.armed THEN ESP_ERR_INVALID_STATE ELSE ESP_OK

\* esp_timer_start_periodic: refused like esp_timer_start_once
esp_timer_start_periodic(t, period, now) == esp_timer_start_once(t, period, now)

\* EspTimer::every(duration): cancel, then start_periodic
every(t, duration, now) == esp_timer_start_periodic(cancel(t), duration, now)

\* EspTimer::cancel, the value returned: Ok(res != ESP_OK)
cancel_returns(t) == esp_timer_stop(t) # ESP_OK

NoTimerOp == [op |-> "none", result |-> FALSE, armed |-> FALSE, box |-> "held"]

TInit ==
    /\ et = TimerOff
    /\ etPeriod = 0
    /\ etBox = "held"
    /\ etRun = 0
    /\ etPc = "live"
    /\ etLast = NoTimerOp

\* EspTimer::after(duration) by the owner
TimerAfter(d) ==
    /\ etLast.op = "none"
    /\ etPc = "live"
    /\ et' = after(et, d, clock)
    /\ etPeriod' = 0
    /\ etLast' = [op |-> "after", result |-> TRUE, armed |-> et.armed,
                  box |-> etBox]
    /\ UNCHANGED <<etBox, etRun, etPc>>
    /\ UNCHANGED <<clock, qvars, pvars>>

\* EspTimer::every(duration) by the owner
TimerEvery(d) ==
    /\ etLast.op = "none"
    /\ etPc = "live"
    /\ et' = every(et, d, clock)
    /\ etPeriod' = d
    /\ etLast' = [op |-> "every", result |-> TRUE, armed |-> et.armed,
                  box |-> etBox]
    /\ UNCHANGED <<etBox, etRun, etPc>>
    /\ UNCHANGED <<clock, qvars, pvars>>

\* EspTimer::cancel() by the owner
TimerCancel ==
    /\ etLast.op = "none"
    /\ etPc = "live"
    /\ et' = cancel(et)
    /\ etPeriod' = 0
    /\ etLast' = [op |-> "cancel", result |-> cancel_returns(et),
                  armed |-> et.armed, box |-> etBox]
    /\ UNCHANGED <<etBox, etRun, etPc>>
    /\ UNCHANGED <<clock, qvars, pvars>>

\* the esp_timer expires: esp_timer takes it off its list (a one-shot timer
\* is no longer running, a periodic one is put back for its next period) and
\* goes on to call EspTimer::handle with the pointer to the boxed closure
TimerExpire ==
    /\ etLast.op = "none"
    /\ et.some
    /\ et.armed
    /\ et.fireAt <= clock
    /\ etRun < MaxPending
    /\ et' = IF etPeriod > 0
             THEN [et EXCEPT !.fireAt = et.fireAt + etPeriod]
             ELSE TimerOff
    /\ etRun' = etRun + 1
    /\ UNCHANGED <<etPeriod, etBox, etPc, etLast>>
    /\ UNCHANGED <<clock, qvars, pvars>>

\* EspTimer::handle(arg): UnsafeCallback::from_ptr(arg).call()
TimerHandle ==
    /\ etLast.op = "none"
    /\ etRun > 0
    /\ etRun' = etRun - 1
    /\ etLast' = [op |-> "handle", result |-> TRUE, armed |-> et.armed,
                  box |-> etBox]
    /\ UNCHANGED <<et, etPeriod, etBox, etPc>>
    /\ UNCHANGED <<clock, qvars, pvars>>

\* Drop::drop, first statement: self.cancel().unwrap()
DropCancel ==
    /\ etLast.op = "none"
    /\ etPc = "live"
    /\ et' = cancel(et)
    /\ etPeriod' = 0
    /\ etPc' = "delete"
    /\ UNCHANGED <<etBox, etRun, etLast>>
    /\ UNCHANGED <<clock, qvars, pvars>>

\* Drop::drop, one turn of the loop: esp_timer_delete until it returns ESP_OK
DropDelete ==
    /\ etLast.op = "none"
    /\ etPc = "delete"
    /\ IF esp_timer_delete(et) = ESP_OK
       THEN /\ et' = NoTimer
            /\ etPc' = "release"
       ELSE UNCHANGED <<et, etPc>>
    /\ UNCHANGED <<etPeriod, etBox, etRun, etLast>>
    /\ UNCHANGED <<clock, qvars, pvars>>

\* drop() has returned: the field _callback is dropped, the Box is freed
DropRelease ==
    /\ etLast.op = "none"
    /\ etPc = "release"
    /\ etBox' = "freed"
    /\ etPc' = "dropped"
    /\ etLast' = [op |-> "drop", result |-> TRUE, armed |-> et.armed,
                  box |-> etBox]
    /\ UNCHANGED <<et, etPeriod, etRun>>
    /\ UNCHANGED <<clock, qvars, pvars>>

\* the operation returns to its caller: its record is dropped
TReturn ==
    /\ etLast.op # "none"
    /\ etLast' = NoTimerOp
    /\ UNCHANGED <<et, etPeriod, etBox, etRun, etPc>>
    /\ UNCHANGED <<clock, qvars, pvars>>

\* time passes
TTick ==
    /\ etLast.op = "none"
    /\ clock < MaxClock
    /\ clock' = clock + 1
    /\ UNCHANGED <<qvars, pvars, tvars>>

TNext ==
    \/ \E d \in Durations : TimerAfter(d)
    \/ \E d \in Durations : TimerEvery(d)
    \/ TimerCancel
    \/ TimerExpire
    \/ TimerHandle
    \/ DropCancel
    \/ DropDelete
    \/ DropRelease
    \/ TReturn
    \/ TTick

Init == QInit /\ PInit /\ TInit

\* the wake queue
Spec == Init /\ [][QNext]_vars

\* the wake queue when the clock keeps advancing, an esp_timer that is due
\* fires, its callback runs and a handler that was entered returns; callers
\* of schedule_wake are under no obligation
LiveSpec ==
    /\ Init
    /\ [][QNext]_vars
    /\ SF_vars(Tick)
    /\ SF_vars(Fire)
    /\ SF_vars(HandleAlarm)
    /\ WF_vars(Return)

\* the wake queue, the esp_timer callback step by step
IsrSpec == Init /\ [][INext]_vars

\* the alarm pool
PoolSpec == Init /\ [][PNext]_vars

\* one EspTimer, from its creation to its drop
TimerSpec == Init /\ [][TNext]_vars

\* ===================================================== properties: queue
MinDeadline(q) ==
    CHOOSE m \in {q[i].at : i \in 1..Len(q)} : \A j \in 1..Len(q) : m <= q[j].at

Count(q, w) == Cardinality({i \in 1..Len(q) : q[i].waker = w})

Entries(q) == {q[i] : i \in 1..Len(q)}

\* a handler that ends with dispatch() has just returned
HandlerDone == lastOp \in {"schedule_wake", "handle_alarm"}

\* In the step formulas below the unprimed variables are the state in which
\* a handler is entered and the primed ones the state in which it returns;
\* the unprimed clock is the value its dispatch() reads from Instant::now().

\* the step is a call of schedule_wake for a waker that has no entry, on a
\* full list
Overflowing ==
    /\ lastOp' = "schedule_wake"
    /\ Len(queue) = QueueCap
    /\ ~HasWaker(queue, lastArgs'.waker)

\* the step is a call of schedule_wake for a waker that has an entry with
\* another deadline
Rescheduled ==
    /\ lastOp' = "schedule_wake"
    /\ HasWaker(queue, lastArgs'.waker)
    /\ EntryAt(queue, lastArgs'.waker) # lastArgs'.at

\* the esp_timer fires at the earliest deadline, or at once if that deadline
\* passed before AlarmImpl::schedule read the clock
FiresAtMin ==
    \/ hw.fireAt = MinDeadline(queue)
    \/ MinDeadline(queue) < hw.fireAt /\ hw.fireAt <= clock

\* entries pending before the call that were woken during the call
PrevWoken ==
    Len(lastEvicted)
    + Cardinality({i \in 1..Len(lastSwept) : lastSwept[i].waker # lastArgs.waker})

\* C1: in every state (no handler is ever inside the lock between two states)
\* alarm_at is the minimum deadline of the entries in the queue, and
\* Instant::MAX when the queue is empty.
C1_AlarmAtIsMinimum ==
    alarm_at = IF queue = <<>> THEN U64_MAX ELSE MinDeadline(queue)

C1_Witness ==
    /\ lastOp = "handle_alarm"
    /\ lastSwept # <<>>
    /\ queue # <<>>
    /\ alarm_at = MinDeadline(queue)
    /\ alarm_at < U64_MAX

\* C2 as stated: after schedule_wake or handle_alarm returns, the esp_timer
\* is set to fire at the minimum deadline, and it is stopped if and only if
\* the queue is empty, whatever deadlines were passed (u64::MAX included).
C2_Original ==
    HandlerDone =>
        /\ hw.armed <=> queue # <<>>
        /\ queue # <<>> => FiresAtMin

\* C2 amended: after schedule_wake or handle_alarm returns, the esp_timer is
\* stopped when the queue is empty; it is running and set to fire at the
\* minimum deadline (at once if that deadline has passed when the timer is
\* started) when that minimum is below u64::MAX; when the minimum deadline
\* is u64::MAX the timer is not started for it: it is stopped, or still
\* running for an earlier deadline that has passed and whose entries are gone.
C2_ArmedMinimum ==
    HandlerDone =>
        /\ queue = <<>> => ~hw.armed
        /\ (queue # <<>> /\ MinDeadline(queue) < U64_MAX) =>
              (hw.armed /\ FiresAtMin)
        /\ (queue # <<>> /\ MinDeadline(queue) = U64_MAX /\ hw.armed) =>
              /\ hw.fireAt <= clock
              /\ \A i \in 1..Len(queue) : queue[i].at > hw.fireAt

C2_Witness ==
    /\ lastOp = "schedule_wake"
    /\ lastEvicted # <<>>
    /\ queue # <<>>
    /\ hw.armed
    /\ hw.fireAt = MinDeadline(queue)

\* C3 as stated: schedule_wake(d2, w) for a waker whose entry has deadline
\* d1 # d2 leaves exactly one entry for w, with deadline d2, and as many
\* entries as before.
C3_Original ==
    [][ Rescheduled =>
          /\ Count(queue', lastArgs'.waker) = 1
          /\ lastArgs' \in Entries(queue')
          /\ Len(queue') = Len(queue)
      ]_vars

\* C3 amended: schedule_wake(d2, w) for a waker whose entry has deadline
\* d1 # d2 creates no entry and evicts none; when d2 is later than the clock
\* read by the sweep of that call, exactly one entry for w remains and its
\* deadline is d2, otherwise w was woken by the sweep and has no entry; the
\* number of entries is the number before the call minus the entries the
\* sweep woke.
C3_Reschedule ==
    [][ Rescheduled =>
          /\ lastEvicted' = <<>>
          /\ Count(queue', lastArgs'.waker) <= 1
          /\ lastArgs'.at > clock =>
                /\ Count(queue', lastArgs'.waker) = 1
                /\ lastArgs' \in Entries(queue')
          /\ lastArgs'.at <= clock =>
                /\ Count(queue', lastArgs'.waker) = 0
                /\ lastArgs' \in Entries(lastSwept')
          /\ Len(queue') = Len(queue) - Len(lastSwept')
      ]_vars

\* w's entry was the head, it is rescheduled and moves behind another entry
C3_Witness ==
    /\ lastOp = "schedule_wake"
    /\ lastOld > 0
    /\ lastOld # lastArgs.at
    /\ Len(queue) = 2
    /\ queue[2] = lastArgs
    /\ lastOld < queue[1].at
    /\ lastSwept = <<>>

\* C4: when a handler's dispatch() has returned, no entry in the queue has a
\* deadline less than or equal to the clock value that dispatch() read.
C4_SweepComplete ==
    [][ lastOp' \in {"schedule_wake", "handle_alarm"} =>
          \A i \in 1..Len(queue') : queue'[i].at > clock
      ]_vars

C4_Witness ==
    /\ lastOp = "handle_alarm"
    /\ lastSwept # <<>>
    /\ queue # <<>>
    /\ clock < MinDeadline(queue)

\* C5 as stated: the queue never holds more than QueueCap entries, and when
\* a full queue gets a new waker exactly one previously pending entry is
\* woken during the call, the one with the smallest deadline.
C5_Original ==
    [][ /\ Len(queue') <= QueueCap
        /\ Overflowing =>
              /\ PrevWoken' = 1
              /\ Len(lastEvicted') = 1
              /\ lastEvicted'[1].at = MinDeadline(queue)
      ]_vars

\* C5 amended: the queue never holds more than QueueCap entries, and when a
\* full queue gets a new waker the overflow loop wakes exactly one previously
\* pending entry, the one with the smallest deadline; any other entry woken
\* during the call is woken by the closing sweep and has a deadline not
\* later than the clock value the sweep read.
C5_OverflowPolicy ==
    [][ /\ Len(queue') <= QueueCap
        /\ Overflowing =>
              /\ Len(lastEvicted') = 1
              /\ lastEvicted'[1] \in Entries(queue)
              /\ lastEvicted'[1].at = MinDeadline(queue)
              /\ \A i \in 1..Len(lastSwept') : lastSwept'[i].at <= clock
      ]_vars

\* one entry was evicted, it was strictly the earliest, nothing was swept
C5_Witness ==
    /\ lastOp = "schedule_wake"
    /\ Len(lastEvicted) = 1
    /\ lastSwept = <<>>
    /\ Len(queue) = QueueCap
    /\ lastArgs \in Entries(queue)
    /\ \A i \in 1..Len(queue) :
          queue[i] # lastArgs => lastEvicted[1].at < queue[i].at

\* C6: when a full queue gets a new waker with a deadline later than the
\* clock, the earliest pending entry is removed and woken in that call, the
\* new entry is in the queue when the call returns (also when it is the
\* earliest of all), and alarm_at is the minimum deadline of the result.
C6_OverflowNeverRejects ==
    [][ (Overflowing /\ lastArgs'.at > clock) =>
          /\ lastEvicted' # <<>>
          /\ lastEvicted'[1] = Head(queue)
          /\ Head(queue).at = MinDeadline(queue)
          /\ Count(queue', lastArgs'.waker) = 1
          /\ lastArgs' \in Entries(queue')
          /\ alarm_at' = MinDeadline(queue')
      ]_vars

\* capacity 2: A@2, B@3, then C@1 gives {C@1, B@3}, armed = 1, A woken
C6_Witness ==
    /\ lastOp = "schedule_wake"
    /\ lastArgs.at = 1
    /\ Len(lastEvicted) = 1
    /\ lastEvicted[1].at = 2
    /\ lastSwept = <<>>
    /\ Len(queue) = QueueCap
    /\ queue[1] = lastArgs
    /\ queue[Len(queue)].at = 3
    /\ alarm_at = 1

\* C7: schedule_wake(d, w) with d not later than the clock value read by the
\* sweep of that call wakes w before it returns and leaves no entry for w.
C7_PastDeadlineHonoured ==
    [][ (lastOp' = "schedule_wake" /\ lastArgs'.at <= clock) =>
          /\ lastArgs' \in Entries(lastSwept')
          /\ ~HasWaker(queue', lastArgs'.waker)
      ]_vars

C7_Witness ==
    /\ lastOp = "schedule_wake"
    /\ lastArgs \in Entries(lastSwept)
    /\ ~HasWaker(queue, lastArgs.waker)
    /\ queue # <<>>
    /\ pending = 0

\* ====================================================== properties: pool
TimerOf(id) == alarms[id + 1].timer

\* C8: the pool hands out the ids 0, 1, .. in the order it assigns them and
\* never more than MaxAlarms of them; allocate_alarm assigns an id exactly
\* when fewer than MaxAlarms slots exist, returns each id once, and a call
\* that reports exhaustion changes nothing (no slot, no esp_timer, no
\* callback, no handle).
C8_PoolCapacity ==
    [][ /\ Len(alarms') <= MaxAlarms
        /\ issued' = [i \in 1..Len(alarms') |-> i - 1]
        /\ handles' \subseteq {issued'[i] : i \in 1..Len(issued')}
        /\ pLast'.op = "allocate_push" =>
              /\ Len(alarms) < MaxAlarms
              /\ pLast'.id = Len(alarms)
              /\ Len(alarms') = Len(alarms) + 1
        /\ (pLast'.op = "allocate" /\ pLast'.result # Exhausted) =>
              /\ pLast'.result \notin handles
              /\ handles' = handles \cup {pLast'.result}
              /\ created' = created + 1
        /\ (pLast'.op = "allocate" /\ pLast'.result = Exhausted) =>
              /\ Len(alarms) = MaxAlarms
              /\ UNCHANGED <<alarms, handles, issued, created, fired,
                             pc, allocId, clock>>
      ]_vars

C8_Witness ==
    /\ pLast.op = "allocate"
    /\ pLast.result = Exhausted
    /\ Len(alarms) = MaxAlarms
    /\ handles = 0 .. (MaxAlarms - 1)
    /\ created = MaxAlarms

\* C9: set_alarm(id, timestamp) with timestamp <= now() returns false and
\* leaves the esp_timer of the slot stopped, whatever the slot's state was.
C9_ArmPastDisarms ==
    (pLast.op = "set_alarm" /\ pLast.ts <= clock) =>
        /\ pLast.result = FALSE
        /\ ~TimerOf(pLast.id).armed

C11_CallbackDelivery ==
    [][ /\ pLast'.op = "call" =>
              /\ pLast'.result = alarms[pLast'.id + 1].callback
              /\ pLast'.result \in CallbackPairs \cup {None}
        /\ \A i \in 1..Len(alarms') :
              IF i > Len(alarms)
              THEN alarms'[i].callback = None
              ELSE alarms'[i].callback # alarms[i].callback =>
                      /\ pLast'.op = "set_alarm_callback"
                      /\ pLast'.id = i - 1
                      /\ alarms'[i].callback = pLast'.result
                      /\ pLast'.result \in CallbackPairs
      ]_vars

\* the fire of slot 1 ran the pair of slot 1 while slot 0 holds another pair
C11_Witness ==
    /\ pLast.op = "call"
    /\ pLast.id = 1
    /\ pLast.result = <<2, 2>>
    /\ alarms[1].callback = <<1, 1>>

\* the step is a handle_alarm entered when no entry of the queue is due
StaleFire ==
    /\ lastOp' = "handle_alarm"
    /\ \A i \in 1..Len(queue) : queue[i].at > clock

\* C12 as stated: a handle_alarm entered when no entry is due wakes nobody
\* and leaves the entries unchanged; afterwards alarm_at is the minimum
\* deadline and the esp_timer is running for it whenever the queue is not
\* empty.
C12_Original ==
    [][ StaleFire =>
          /\ lastSwept' = <<>>
          /\ queue' = queue
          /\ alarm_at' = IF queue = <<>> THEN U64_MAX ELSE MinDeadline(queue)
          /\ queue # <<>> => (hw'.armed /\ FiresAtMin')
      ]_vars

\* C12 amended: a handle_alarm entered when no entry is due wakes nobody and
\* leaves the entries unchanged; afterwards alarm_at is the minimum deadline
\* (Instant::MAX when the queue is empty); the esp_timer is stopped when the
\* queue is empty, it is running for the minimum deadline when that deadline
\* is below u64::MAX, and it is left as it was when the minimum deadline is
\* u64::MAX.
C12_StaleFire ==
    [][ StaleFire =>
          /\ lastSwept' = <<>>
          /\ queue' = queue
          /\ alarm_at' = IF queue = <<>> THEN U64_MAX ELSE MinDeadline(queue)
          /\ queue = <<>> => ~hw'.armed
          /\ (queue # <<>> /\ MinDeadline(queue) < U64_MAX) =>
                (hw'.armed /\ FiresAtMin')
          /\ (queue # <<>> /\ MinDeadline(queue) = U64_MAX) => hw' = hw
      ]_vars

\* a fire that found nothing due: the timer runs again for the head
C12_Witness ==
    /\ lastOp = "handle_alarm"
    /\ lastSwept = <<>>
    /\ queue # <<>>
    /\ alarm_at = Head(queue).at
    /\ alarm_at > clock
    /\ hw = [armed |-> TRUE, fireAt |-> alarm_at]

\* C18: when the clock keeps advancing, due alarms fire and their callbacks
\* run, no entry with a deadline the clock reaches stays in the queue for
\* ever: again and again the queue holds none of them, so each of them has
\* been woken (the only other way out of the queue is a schedule_wake that
\* gives its waker another deadline).
C18_NoMissedDeadline ==
    []<>(\A i \in 1..Len(queue) : queue[i].at > MaxClock)

\* the fire of the alarm woke the last entry of the queue
C18_Witness ==
    /\ lastOp = "handle_alarm"
    /\ Len(lastSwept) = 1
    /\ queue = <<>>
    /\ alarm_at = U64_MAX
    /\ ~hw.armed

NonDecreasing(sq) == \A i \in 1..Len(sq) : \A j \in i..Len(sq) : sq[i].at <= sq[j].at

\* C19: the timers woken by the sweep of one call are woken in
\* non-decreasing order of deadline and none of them has a deadline later
\* than an entry the sweep leaves in the queue; the timers woken by the
\* overflow loop of one call are woken in non-decreasing order of deadline
\* and none of them has a deadline later than an entry that was in the queue
\* when the loop started.
C19_HeadFirstOrder ==
    [][ lastOp' \in {"schedule_wake", "handle_alarm"} =>
          /\ NonDecreasing(lastSwept')
          /\ \A i \in 1..Len(lastSwept') : \A j \in 1..Len(queue') :
                lastSwept'[i].at <= queue'[j].at
          /\ NonDecreasing(lastEvicted')
          /\ \A i \in 1..Len(lastEvicted') : \A j \in 1..Len(queue) :
                queue[j] \notin Entries(SubSeq(lastEvicted', 1, i)) =>
                   lastEvicted'[i].at <= queue[j].at
      ]_vars

\* one sweep woke two timers with different deadlines, the earlier first
C19_Witness ==
    /\ lastOp \in {"schedule_wake", "handle_alarm"}
    /\ Len(lastSwept) = 2
    /\ lastSwept[1].at < lastSwept[2].at

\* the timers woken in the call that has just returned, overflow loop first
Woken == lastEvicted \o lastSwept

\* C20: the queue loses entries only in a handler step; a timer woken by the
\* sweep carries the deadline stored for its waker when the sweep ran (the
\* new one for the waker passed to schedule_wake) and that deadline is not
\* later than the clock the sweep read; a timer is woken by the overflow
\* loop only when the list was full and the waker passed had no entry; no
\* waker is woken twice in a call, a woken waker has no entry left, every
\* entry that left the queue was woken or is the old entry of the waker
\* passed, and a waker rescheduled to a deadline later than the clock is not
\* woken.
C20_NoSpuriousWake ==
    [][ /\ lastOp' = "none" => queue' = queue
        /\ lastOp' \in {"schedule_wake", "handle_alarm"} =>
              /\ \A i \in 1..Len(lastSwept') :
                    /\ lastSwept'[i].at <= clock
                    /\ IF lastSwept'[i].waker = lastArgs'.waker
                       THEN lastSwept'[i] = lastArgs'
                       ELSE lastSwept'[i] \in Entries(queue)
              /\ lastEvicted' # <<>> =>
                    /\ Len(queue) = QueueCap
                    /\ ~HasWaker(queue, lastArgs'.waker)
                    /\ \A i \in 1..Len(lastEvicted') :
                          lastEvicted'[i] \in Entries(queue)
              /\ \A i \in 1..Len(Woken') :
                    /\ ~HasWaker(queue', Woken'[i].waker)
                    /\ \A j \in 1..Len(Woken') :
                          Woken'[i].waker = Woken'[j].waker => i = j
              /\ \A i \in 1..Len(queue) :
                    \/ queue[i] \in Entries(queue')
                    \/ queue[i] \in Entries(Woken')
                    \/ queue[i].waker = lastArgs'.waker
              /\ lastArgs'.at > clock =>
                    \A i \in 1..Len(Woken') : Woken'[i].waker # lastArgs'.waker
      ]_vars

\* the alarm for d1 has fired; before its callback runs the waker is
\* rescheduled to a later deadline and stays in the queue, nobody is woken
C20_Witness ==
    /\ lastOp = "schedule_wake"
    /\ pending > 0
    /\ lastOld > 0
    /\ lastOld <= clock
    /\ lastArgs.at > clock
    /\ lastArgs \in Entries(queue)
    /\ Woken = <<>>

\* C21: in every state the entries are in non-decreasing order of deadline,
\* so the head (what peek and pop return) has the minimum deadline, also
\* right after the deadline of an existing entry was changed, and no two
\* entries have the same waker.
C21_QueueStructure ==
    /\ NonDecreasing(queue)
    /\ queue # <<>> => Head(queue).at = MinDeadline(queue)
    /\ \A i \in 1..Len(queue) : Count(queue, queue[i].waker) = 1

\* the entry at the tail was given an earlier deadline and is now the head
C21_Witness ==
    /\ lastOp = "schedule_wake"
    /\ lastOld > 0
    /\ Len(queue) = 2
    /\ queue[1] = lastArgs
    /\ queue[1].at < queue[2].at
    /\ queue[2].at < lastOld
    /\ Woken = <<>>

\* the step is a call of schedule_wake on a full list for a waker that has
\* an entry, with a deadline later than the clock the sweep reads, while no
\* entry of another waker is due
FullReschedule ==
    /\ lastOp' = "schedule_wake"
    /\ Len(queue) = QueueCap
    /\ HasWaker(queue, lastArgs'.waker)
    /\ lastArgs'.at > clock
    /\ \A i \in 1..Len(queue) :
          queue[i].waker # lastArgs'.waker => queue[i].at > clock

\* C22: such a call wakes nobody and removes no entry: the queue is still
\* full, the entries of the other wakers are the same and in the same order,
\* the waker passed has one entry with the new deadline, and alarm_at is the
\* minimum deadline of the result.
C22_FullRescheduleEvictsNobody ==
    [][ FullReschedule =>
          /\ lastEvicted' = <<>>
          /\ lastSwept' = <<>>
          /\ Len(queue') = QueueCap
          /\ Count(queue', lastArgs'.waker) = 1
          /\ lastArgs' \in Entries(queue')
          /\ SelectSeq(queue', LAMBDA t : t.waker # lastArgs'.waker)
                = SelectSeq(queue, LAMBDA t : t.waker # lastArgs'.waker)
          /\ alarm_at' = MinDeadline(queue')
      ]_vars

\* on a full list the entry of a waker was moved to the head by a new,
\* earlier deadline, for which the esp_timer now runs
C22_Witness ==
    /\ lastOp = "schedule_wake"
    /\ lastOld > lastArgs.at
    /\ Len(queue) = QueueCap
    /\ Head(queue) = lastArgs
    /\ Woken = <<>>
    /\ alarm_at = lastArgs.at
    /\ hw = [armed |-> TRUE, fireAt |-> lastArgs.at]

\* C23: esp_timer_create is called at most once, and the call is made in the
\* first schedule_wake, whose result has the context set to
\* handle_alarm_callback; the alarm, once Some, stays Some. The alarm is Some
\* after every handler that ran update_alarm, and Some with the context at
\* handle_alarm_callback whenever the esp_timer is armed or a fire of it waits
\* for or is inside handle_isr; handle_isr never reads the no-op callback.
C23_LazySingleBinding ==
    /\ [](/\ esp_timers <= 1
          /\ alarm <=> esp_timers = 1
          /\ alarm <=> alarm_context = "handle_alarm_callback"
          /\ lastOp # "none" => alarm
          /\ (hw.armed \/ pending > 0 \/ isr # "idle") => alarm
          /\ isr # "noop")
    /\ [][ /\ esp_timers' # esp_timers =>
                 /\ lastOp' = "schedule_wake"
                 /\ alarm_context = "noop"
                 /\ alarm_context' = "handle_alarm_callback"
                 /\ ~alarm /\ alarm'
           /\ (lastOp' = "schedule_wake" /\ alarm_context = "noop") =>
                 esp_timers' = 1
           /\ alarm => alarm'
        ]_vars

\* after two calls of schedule_wake there is one esp_timer; it has fired and
\* handle_isr is about to call handle_alarm_callback
C23_Witness ==
    /\ Len(queue) = 2
    /\ esp_timers = 1
    /\ alarm
    /\ isr = "handle_alarm_callback"

\* ======================================================= lock discipline
\* C15: the entries, alarm_at, the alarm handle and the routing context are
\* written only in the step of a handler that holds the queue mutex, the
\* esp_timer is started only in such a step, and handle_isr reads the routing
\* context only in the step in which it holds the mutex.
C15_QueueLockDiscipline ==
    [][ /\ (\/ queue' # queue
            \/ alarm_at' # alarm_at
            \/ alarm' # alarm
            \/ alarm_context' # alarm_context) => lastOp' # "none"
        /\ (hw' # hw /\ hw'.armed) => lastOp' # "none"
        /\ (isr = "idle" /\ isr' # "idle") => lastOp' = "handle_alarm"
      ]_vars

\* C16: a step of allocate_alarm, set_alarm_callback, set_alarm or call that
\* writes a slot (its timer, its callback, the slot itself) or reads a slot's
\* callback or timer runs inside the critical section of the pool.
C16_SlotLockDiscipline ==
    [][ /\ (pLast'.op # "none" /\ alarms' # alarms) => pLast'.guard
        /\ pLast'.op \in {"call", "set_alarm"} => pLast'.guard
      ]_vars

\* ids pushed by callers that are still inside allocate_alarm
InFlight == {allocId[p] : p \in {c \in Callers : pc[c] = "bind"}}

\* C17: whatever the interleaving of allocate_alarm calls, every call that
\* returns an id returns another one, the ids assigned are 0, 1, .. in order
\* and at most MaxAlarms, each of them is returned or still held by exactly
\* one call in progress, the ids returned are 0..k-1 once the k successful
\* calls have returned, and a returned id has its esp_timer bound.
C17_ConcurrentAllocation ==
    /\ Cardinality(handles) = created
    /\ created <= MaxAlarms
    /\ Len(alarms) <= MaxAlarms
    /\ issued = [i \in 1..Len(alarms) |-> i - 1]
    /\ handles \cup InFlight = 0 .. (Len(alarms) - 1)
    /\ handles \cap InFlight = {}
    /\ Cardinality(InFlight) = Cardinality({c \in Callers : pc[c] = "bind"})
    /\ (\A c \in Callers : pc[c] = "idle") => handles = 0 .. (created - 1)
    /\ \A id \in handles : TimerOf(id).some

\* the call that pushed slot 1 has returned before the call that pushed
\* slot 0
C17_Witness ==
    /\ handles = {1}
    /\ InFlight = {0}
    /\ TimerOf(1).some
    /\ ~TimerOf(0).some
    /\ pLast.op = "allocate"
    /\ pLast.result = 1

\* ================================================= properties: EspTimer
\* C13: in Drop::drop the esp_timer is deleted only after it was stopped,
\* the boxed closure is freed only after esp_timer_delete has succeeded, and
\* the esp_timer never calls into a closure that has been freed.
C13_DropOrdering ==
    [][ /\ (et.some /\ ~et'.some) => (etPc = "delete" /\ ~et.armed)
        /\ (etBox = "held" /\ etBox' = "freed") => ~et.some
        /\ etLast'.op = "handle" => etLast'.box = "held"
      ]_vars

\* C14: EspTimer::cancel returns true exactly when the timer was running at
\* the moment of the call.
C14_CancelResult ==
    etLast.op = "cancel" => (etLast.result <=> etLast.armed)

====
